---- MODULE Spec2Model ----
(***************************************************************************)
(* Model of the text-to-speech wrapper: BaseTTS / CoquiXTTS                *)
(* (engine/models) and BasePipeline / TTSPipeline (engine/pipelines).      *)
(*                                                                         *)
(* Python objects are functions from the names of the attributes they      *)
(* currently have to values, so hasattr(o, a) is  a \in DOMAIN o.          *)
(* File paths are sequences of path components; <<>> is the empty string   *)
(* (and also stands for None where only truthiness is tested).             *)
(* The wrapped libraries are modelled by their observable contract:        *)
(* the synthesis model either raises or returns a waveform, the codec      *)
(* writes a header followed by the samples and reads it back.              *)
(***************************************************************************)
EXTENDS Integers, Sequences, FiniteSets, TLC

\* ---------------------------------------------------------------- bounds
MaxFrames == 1

\* ------------------------------------------------------------- constants
DefaultSampleRate == 22050
DefaultModelName == "tts_models/en/ljspeech/tacotron2-DDC"
RIFF == 1380533830
NotLoadedMsg == "Model not loaded. Call load_model() first."

\* ---------------------------------------------------------------- inputs
Samples == {0, 1}
Waveforms == UNION {[1..n -> Samples] : n \in 1..MaxFrames}
Texts == {"Hello, world!", ""}
ModelNames == {"coqui_xtts", "chatterbox"}
None == "None"

\* configs a caller passes to a constructor; None and {} are both falsy
\* and both become {} in __init__, they are the one value EmptyDict
EmptyDict == [k \in {} |-> None]
Configs ==
  { EmptyDict,
    [model_name |-> DefaultModelName],
    [sample_rate |-> 16000, speaker |-> "spk", language |-> "en",
     vocoder_name |-> "voc"] }

\* dict.get(key, default)
Get(d, key, default) == IF key \in DOMAIN d THEN d[key] ELSE default

\* ------------------------------------------------------------ file system
\* directories that exist from the start and cannot be written into
RoDirs == {<<"ro">>}
\* "output.wav", "sample_data/a/output.wav", "ro/output.wav"
SaveDirs == {<<>>, <<"sample_data", "a">>, <<"ro">>}
SavePaths == {Append(d, "output.wav") : d \in SaveDirs}

\* os.path.dirname
dirname(path) == IF path = <<>> THEN <<>> ELSE SubSeq(path, 1, Len(path) - 1)

Prefixes(d) == {SubSeq(d, 1, n) : n \in 1..Len(d)}

\* a directory in which the process may create entries; <<>> is the
\* current directory
CanWriteIn(d, ds) == (d = <<>> \/ d \in ds) /\ d \notin RoDirs

\* os.makedirs(d, exist_ok=True): creates the missing prefixes of d from
\* the shortest on and stops at the first one it cannot create
MissingCreatable(d, ds) ==
  {p \in Prefixes(d) :
     /\ p \notin ds
     /\ \A q \in Prefixes(p) :
          q \in ds \/ CanWriteIn(dirname(q), ds \cup Prefixes(dirname(q)))}

makedirs(d, ds) ==
  IF d = <<>>
  THEN [err |-> "FileNotFoundError", dirs |-> ds]
  ELSE LET made == MissingCreatable(d, ds)
       IN  IF d \in ds \cup made
           THEN [err |-> "ok", dirs |-> ds \cup made]
           ELSE [err |-> "PermissionError", dirs |-> ds \cup made]

\* ------------------------------------------------------------------ codec
\* torchaudio.save(..., format="wav"): header (tag, channels, rate, frames)
\* followed by the samples of the [1, N] tensor
torchaudio_save(wave, rate) == <<RIFF, 1, rate, Len(wave)>> \o wave

\* torchaudio.load: parses the header, returns (waveform, sample_rate)
torchaudio_load(b) ==
  IF Len(b) > 4 /\ b[1] = RIFF /\ b[2] = 1 /\ b[4] = Len(b) - 4
  THEN [ok |-> TRUE, wave |-> SubSeq(b, 5, Len(b)), rate |-> b[3]]
  ELSE [ok |-> FALSE, wave |-> <<>>, rate |-> 0]

\* outcomes of the synthesis library call self.tts.tts(text, ...)
LibOutcomes ==
  {[raises |-> TRUE, wav |-> <<>>]} \cup
  {[raises |-> FALSE, wav |-> w] : w \in Waveforms}

\* byte buffers a caller may hand to save_audio directly
AudioInputs ==
  {torchaudio_save(w, 8000) : w \in Waveforms} \cup {<<0>>}

\* ---------------------------------------------------------------- objects
hasattr(o, a) == a \in DOMAIN o
SetAttr(o, a, v) == (a :> v) @@ o

\* what a call did: err is "ok" or the exception's type, returned tells a
\* value was returned, trace lists the calls made in order
Raise(o, e, m, t) ==
  [self |-> o, err |-> e, msg |-> m, returned |-> FALSE, value |-> <<>>,
   trace |-> t]
Return(o, v, t) ==
  [self |-> o, err |-> "ok", msg |-> <<>>, returned |-> TRUE, value |-> v,
   trace |-> t]

\* BaseTTS.__init__
BaseTTS_init(config) ==
  [config |-> IF DOMAIN config = {} THEN EmptyDict ELSE config]

\* BasePipeline.__init__
BasePipeline_init(name, config) ==
  [model_name |-> name,
   config |-> IF DOMAIN config = {} THEN EmptyDict ELSE config]

\* variant of load_model that assigns the attributes, self.tts included,
\* before the library builds the model
load_model_bindsFirst(self, ctorRaises) ==
  LET api == [model |-> Get(self.config, "model_name", DefaultModelName),
              vocoder |-> Get(self.config, "vocoder_name", None)]
      bound == SetAttr(SetAttr(SetAttr(SetAttr(self,
                    "tts", api),
                    "speaker", Get(self.config, "speaker", None)),
                    "language", Get(self.config, "language", None)),
                    "sample_rate",
                    Get(self.config, "sample_rate", DefaultSampleRate))
  IN  IF ctorRaises
      THEN Raise(bound, "LibError", <<>>, <<"CoquiTTSAPI">>)
      ELSE Return(bound, <<>>, <<"CoquiTTSAPI">>)

\* CoquiXTTS.load_model; ctorRaises: the library fails to build the model
load_model(self, ctorRaises) ==
  LET model_name == Get(self.config, "model_name", DefaultModelName)
      vocoder_name == Get(self.config, "vocoder_name", None)
      api == [model |-> model_name, vocoder |-> vocoder_name]
  IN  IF ctorRaises
      THEN Raise(self, "LibError", <<>>, <<"CoquiTTSAPI">>)
      ELSE Return(SetAttr(SetAttr(SetAttr(SetAttr(self,
                    "tts", api),
                    "speaker", Get(self.config, "speaker", None)),
                    "language", Get(self.config, "language", None)),
                    "sample_rate",
                    Get(self.config, "sample_rate", DefaultSampleRate)),
                  <<>>, <<"CoquiTTSAPI">>)

\* variants of _tensor_to_bytes: buffer.read() at the end of the stream,
\* and the tensor's raw samples without the container
tensor_to_bytes_read(self, wave) == <<>>
tensor_to_bytes_raw(self, wave) == wave

\* CoquiXTTS._tensor_to_bytes
tensor_to_bytes(self, wave) == torchaudio_save(wave, self["sample_rate"])

\* variant of synthesize that drops the model when the library fails
synthesize_unloads(self, text, lib) ==
  IF ~hasattr(self, "tts")
  THEN Raise(self, "RuntimeError", <<NotLoadedMsg>>, <<>>)
  ELSE IF lib.raises
       THEN Raise([a \in DOMAIN self \ {"tts"} |-> self[a]], "LibError",
                  <<>>, <<"tts.tts">>)
       ELSE Return(self, tensor_to_bytes(self, lib.wav),
                   <<"tts.tts", "_tensor_to_bytes">>)

\* CoquiXTTS.synthesize; lib: what self.tts.tts does for this text
synthesize(self, text, lib) ==
  IF ~hasattr(self, "tts")
  THEN Raise(self, "RuntimeError", <<NotLoadedMsg>>, <<>>)
  ELSE IF lib.raises
       THEN Raise(self, "LibError", <<>>, <<"tts.tts">>)
       ELSE Return(self, tensor_to_bytes(self, lib.wav),
                   <<"tts.tts", "_tensor_to_bytes">>)

\* variant of save_audio that keeps the sample rate the buffer declares
save_audio_inputRate(self, audio_bytes, path, ds, fl) ==
  LET mk == makedirs(dirname(path), ds)
      dec == torchaudio_load(audio_bytes)
      Fs(r, f) == r @@ [dirs |-> mk.dirs, files |-> f]
  IN  IF mk.err # "ok"
      THEN Fs(Raise(self, mk.err, <<>>, <<"makedirs">>), fl)
      ELSE IF ~dec.ok
      THEN Fs(Raise(self, "DecodeError", <<>>,
                    <<"makedirs", "torchaudio.load">>), fl)
      ELSE IF ~CanWriteIn(dirname(path), mk.dirs)
      THEN Fs(Raise(self, "PermissionError", <<>>,
                    <<"makedirs", "torchaudio.load", "torchaudio.save">>), fl)
      ELSE Fs(Return(self, <<>>,
                     <<"makedirs", "torchaudio.load", "torchaudio.save">>),
              (path :> torchaudio_save(dec.wave, dec.rate)) @@ fl)

\* CoquiXTTS.save_audio on the file system (ds: directories, fl: files)
save_audio(self, audio_bytes, path, ds, fl) ==
  LET mk == makedirs(dirname(path), ds)
      dec == torchaudio_load(audio_bytes)
      Fs(r, f) == r @@ [dirs |-> mk.dirs, files |-> f]
  IN  IF mk.err # "ok"
      THEN Fs(Raise(self, mk.err, <<>>, <<"makedirs">>), fl)
      ELSE IF ~dec.ok
      THEN Fs(Raise(self, "DecodeError", <<>>,
                    <<"makedirs", "torchaudio.load">>), fl)
      ELSE IF ~hasattr(self, "sample_rate")
      THEN Fs(Raise(self, "AttributeError", <<"sample_rate">>,
                    <<"makedirs", "torchaudio.load">>), fl)
      ELSE IF ~CanWriteIn(dirname(path), mk.dirs)
      THEN Fs(Raise(self, "PermissionError", <<>>,
                    <<"makedirs", "torchaudio.load", "torchaudio.save">>), fl)
      ELSE Fs(Return(self, <<>>,
                     <<"makedirs", "torchaudio.load", "torchaudio.save">>),
              (path :> torchaudio_save(dec.wave, self["sample_rate"])) @@ fl)

\* ---------------------------------------------------------------- pipeline
MODEL_MAP == [coqui_xtts |-> "CoquiXTTS"]

\* variant of load_components that falls back to the default class
load_components_fallback(self, ctorRaises) ==
  LET r == load_model(BaseTTS_init(self["config"]), ctorRaises)
      p == SetAttr(self, "tts_model", r.self)
      t == <<"CoquiXTTS", "load_model">> \o r.trace
  IN  IF r.err # "ok" THEN Raise(p, r.err, r.msg, t) ELSE Return(p, <<>>, t)

\* TTSPipeline.load_components
load_components(self, ctorRaises) ==
  IF self["model_name"] \notin DOMAIN MODEL_MAP
  THEN Raise(self, "ValueError",
             <<"Unsupported TTS model: ", self["model_name"]>>, <<>>)
  ELSE LET r == load_model(BaseTTS_init(self["config"]), ctorRaises)
           p == SetAttr(self, "tts_model", r.self)
           t == <<MODEL_MAP[self["model_name"]], "load_model">> \o r.trace
       IN  IF r.err # "ok"
           THEN Raise(p, r.err, r.msg, t)
           ELSE Return(p, <<>>, t)

\* variant of process that returns what save_audio returned
process_returnsSaved(self, input_data, save_path, lib, ds, fl) ==
  IF ~hasattr(self, "tts_model")
  THEN Raise(self, "AttributeError", <<"tts_model">>, <<>>)
       @@ [dirs |-> ds, files |-> fl, audio |-> <<>>]
  ELSE
    LET s == synthesize(self["tts_model"], input_data, lib)
        t1 == <<"synthesize">> \o s.trace
    IN  IF s.err # "ok"
        THEN Raise(SetAttr(self, "tts_model", s.self), s.err, s.msg, t1)
             @@ [dirs |-> ds, files |-> fl, audio |-> <<>>]
        ELSE IF save_path # <<>>
        THEN LET sv == save_audio(s.self, s.value, save_path, ds, fl)
                 p == SetAttr(self, "tts_model", sv.self)
                 t2 == t1 \o <<"save_audio">> \o sv.trace
             IN  IF sv.err # "ok"
                 THEN Raise(p, sv.err, sv.msg, t2)
                      @@ [dirs |-> sv.dirs, files |-> sv.files,
                          audio |-> s.value]
                 ELSE Return(p, sv.value, t2)
                      @@ [dirs |-> sv.dirs, files |-> sv.files,
                          audio |-> s.value]
        ELSE Return(SetAttr(self, "tts_model", s.self), s.value, t1)
             @@ [dirs |-> ds, files |-> fl, audio |-> s.value]

\* variant of process that tries the save a second time when it fails
process_retries(self, input_data, save_path, lib, ds, fl) ==
  IF ~hasattr(self, "tts_model")
  THEN Raise(self, "AttributeError", <<"tts_model">>, <<>>)
       @@ [dirs |-> ds, files |-> fl, audio |-> <<>>]
  ELSE
    LET s == synthesize(self["tts_model"], input_data, lib)
        t1 == <<"synthesize">> \o s.trace
    IN  IF s.err # "ok"
        THEN Raise(SetAttr(self, "tts_model", s.self), s.err, s.msg, t1)
             @@ [dirs |-> ds, files |-> fl, audio |-> <<>>]
        ELSE IF save_path # <<>>
        THEN LET s1 == save_audio(s.self, s.value, save_path, ds, fl)
                 sv == IF s1.err = "ok" THEN s1
                       ELSE save_audio(s1.self, s.value, save_path,
                                       s1.dirs, s1.files)
                 p == SetAttr(self, "tts_model", sv.self)
                 t2 == IF s1.err = "ok"
                       THEN t1 \o <<"save_audio">> \o s1.trace
                       ELSE t1 \o <<"save_audio">> \o s1.trace
                               \o <<"save_audio">> \o sv.trace
             IN  IF sv.err # "ok"
                 THEN Raise(p, sv.err, sv.msg, t2)
                      @@ [dirs |-> sv.dirs, files |-> sv.files,
                          audio |-> s.value]
                 ELSE Return(p, s.value, t2)
                      @@ [dirs |-> sv.dirs, files |-> sv.files,
                          audio |-> s.value]
        ELSE Return(SetAttr(self, "tts_model", s.self), s.value, t1)
             @@ [dirs |-> ds, files |-> fl, audio |-> s.value]

\* TTSPipeline.process; save_path <<>> is None (or ""), lib is what the
\* synthesis library does for input_data; audio is the local variable
process(self, input_data, save_path, lib, ds, fl) ==
  IF ~hasattr(self, "tts_model")
  THEN Raise(self, "AttributeError", <<"tts_model">>, <<>>)
       @@ [dirs |-> ds, files |-> fl, audio |-> <<>>]
  ELSE
    LET s == synthesize(self["tts_model"], input_data, lib)
        t1 == <<"synthesize">> \o s.trace
    IN  IF s.err # "ok"
        THEN Raise(SetAttr(self, "tts_model", s.self), s.err, s.msg, t1)
             @@ [dirs |-> ds, files |-> fl, audio |-> <<>>]
        ELSE IF save_path # <<>>
        THEN LET sv == save_audio(s.self, s.value, save_path, ds, fl)
                 p == SetAttr(self, "tts_model", sv.self)
                 t2 == t1 \o <<"save_audio">> \o sv.trace
             IN  IF sv.err # "ok"
                 THEN Raise(p, sv.err, sv.msg, t2)
                      @@ [dirs |-> sv.dirs, files |-> sv.files,
                          audio |-> s.value]
                 ELSE Return(p, s.value, t2)
                      @@ [dirs |-> sv.dirs, files |-> sv.files,
                          audio |-> s.value]
        ELSE Return(SetAttr(self, "tts_model", s.self), s.value, t1)
             @@ [dirs |-> ds, files |-> fl, audio |-> s.value]

\* ------------------------------------------------------------------ state
VARIABLES
  pipeline,   \* the TTSPipeline object
  xtts,       \* a CoquiXTTS object a caller built directly
  dirs,       \* existing directories
  files,      \* existing files and their bytes
  hist,       \* history: which loads have completed successfully
  last        \* the most recent call, its inputs and what it did

vars == <<pipeline, xtts, dirs, files, hist, last>>

\* the fields of last that a call fills in
Count(t, e) == Cardinality({i \in DOMAIN t : t[i] = e})

Call(op, target, text, path, audio_in, lib, r, audio) ==
  [op |-> op, target |-> target, text |-> text, path |-> path,
   audio_in |-> audio_in,
   wav |-> IF Count(r.trace, "tts.tts") > 0 THEN lib.wav ELSE <<>>,
   pre |-> hist, err |-> r.err, msg |-> r.msg,
   returned |-> r.returned, value |-> r.value, audio |-> audio,
   trace |-> r.trace]

NoLib == [raises |-> TRUE, wav |-> <<>>]

NoCall ==
  [self |-> <<>>, err |-> "ok", msg |-> <<>>, returned |-> FALSE,
   value |-> <<>>, trace |-> <<>>]

Init ==
  /\ \E n \in ModelNames, c \in Configs :
       /\ pipeline = BasePipeline_init(n, c)
       /\ xtts = BaseTTS_init(c)
  /\ dirs = RoDirs
  /\ files = [f \in {} |-> <<>>]
  /\ hist = [xtts |-> FALSE, aborted |-> FALSE, pipeline |-> FALSE,
             ever |-> FALSE, failed |-> FALSE]
  /\ last = [op |-> "init", target |-> "", text |-> "", path |-> <<>>,
             audio_in |-> <<>>, wav |-> <<>>, pre |-> hist, err |-> "ok", msg |-> <<>>,
             returned |-> FALSE, value |-> <<>>, audio |-> <<>>,
             trace |-> <<>>]

\* pipeline.load_components()
LoadComponents ==
  \E ctorRaises \in BOOLEAN :
    \E r \in {load_components(pipeline, ctorRaises)} :
      LET built == r.trace # <<>>
      IN
        /\ pipeline' = r.self
        /\ hist' = [hist EXCEPT
                      !.pipeline = IF built THEN r.err = "ok" ELSE @,
                      !.ever = @ \/ (built /\ r.err = "ok")]
        /\ last' = Call("load_components", "pipeline", "", <<>>, <<>>,
                       NoLib, r, <<>>)
        /\ UNCHANGED <<xtts, dirs, files>>

\* pipeline.process(text, save_path)
Process ==
  \E text \in Texts, save_path \in SavePaths \cup {<<>>}, lib \in LibOutcomes :
    \E r \in {process(pipeline, text, save_path, lib, dirs, files)} :
        /\ pipeline' = r.self
        /\ dirs' = r.dirs
        /\ files' = r.files
        /\ hist' = [hist EXCEPT
                      !.failed = @ \/ (hist.pipeline /\ r.err # "ok")]
        /\ last' = Call("process", "pipeline", text, save_path, <<>>,
                       lib, r, r.audio)
        /\ UNCHANGED xtts

\* the caller re-assigns the public attribute pipeline.model_name
SetModelName ==
  \E n \in ModelNames :
    /\ pipeline' = SetAttr(pipeline, "model_name", n)
    /\ last' = Call("set_model_name", "pipeline", n, <<>>, <<>>,
                   NoLib, NoCall, <<>>)
    /\ UNCHANGED <<xtts, dirs, files, hist>>

\* xtts.load_model()
XttsLoadModel ==
  \E ctorRaises \in BOOLEAN :
    \E r \in {load_model(xtts, ctorRaises)} :
        /\ xtts' = r.self
        /\ hist' = [hist EXCEPT !.xtts = @ \/ r.err = "ok",
                                 !.aborted = @ \/ r.err # "ok"]
        /\ last' = Call("load_model", "xtts", "", <<>>, <<>>, NoLib, r, <<>>)
        /\ UNCHANGED <<pipeline, dirs, files>>

\* xtts.synthesize(text)
XttsSynthesize ==
  \E text \in Texts, lib \in LibOutcomes :
    \E r \in {synthesize(xtts, text, lib)} :
        /\ xtts' = r.self
        /\ last' = Call("synthesize", "xtts", text, <<>>, <<>>,
                       lib, r, r.value)
        /\ UNCHANGED <<pipeline, dirs, files, hist>>

\* xtts.save_audio(audio_bytes, path), with bytes from anywhere or the
\* bytes the previous call returned
XttsSaveAudio ==
  \E audio_bytes \in AudioInputs \cup {last.value}, path \in SavePaths :
    \E r \in {save_audio(xtts, audio_bytes, path, dirs, files)} :
        /\ xtts' = r.self
        /\ dirs' = r.dirs
        /\ files' = r.files
        /\ last' = Call("save_audio", "xtts", "", path, audio_bytes,
                       NoLib, r, <<>>)
        /\ UNCHANGED <<pipeline, hist>>

Next ==
  \/ LoadComponents
  \/ Process
  \/ SetModelName
  \/ XttsLoadModel
  \/ XttsSynthesize
  \/ XttsSaveAudio

Spec == Init /\ [][Next]_vars

\* ----------------------------------------------------------------- claims
\* the object a call was made on, and the rate its configuration asks for
Target == IF last.target = "xtts" THEN xtts ELSE pipeline["tts_model"]
ConfiguredRate(o) == Get(o["config"], "sample_rate", DefaultSampleRate)
\* save paths none of whose directories is read-only
WritablePaths ==
  {p \in SavePaths : \A q \in Prefixes(dirname(p)) : q \notin RoDirs}

\* C1: load_components on a model_name that is not a key of MODEL_MAP
\* raises ValueError naming the model, before any model is built or loaded,
\* and leaves the pipeline (model_name, config, an earlier tts_model) and
\* everything else as it was.
C1_UnknownModelRejected ==
  [][ (last'.op = "load_components"
       /\ pipeline["model_name"] \notin DOMAIN MODEL_MAP)
      => /\ last'.err = "ValueError"
         /\ last'.msg = <<"Unsupported TTS model: ", pipeline["model_name"]>>
         /\ last'.trace = <<>>
         /\ pipeline' = pipeline
         /\ UNCHANGED <<xtts, dirs, files, hist>> ]_vars

\* an unknown name was rejected while an earlier loaded model is in place
C1_Witness ==
  /\ last.op = "load_components"
  /\ last.err = "ValueError"
  /\ last.pre.pipeline
  /\ hasattr(pipeline, "tts_model")
  /\ hasattr(pipeline["tts_model"], "tts")

\* C2: synthesize on an instance whose load_model has not completed
\* successfully (never called, or aborted in the library constructor)
\* raises the "model not loaded" RuntimeError for every text, without
\* calling the synthesis library and without producing bytes.
C2_SynthesizeBeforeLoad ==
  (last.op = "synthesize" /\ ~last.pre.xtts)
    => /\ last.err = "RuntimeError"
       /\ last.msg = <<NotLoadedMsg>>
       /\ ~last.returned
       /\ last.value = <<>>
       /\ Count(last.trace, "tts.tts") = 0

\* synthesize was called after a load_model that aborted
C2_Witness ==
  /\ last.op = "synthesize"
  /\ ~last.pre.xtts
  /\ last.pre.aborted
  /\ last.err = "RuntimeError"

\* C3: for a loaded pipeline and a save_path in a writable location (parents
\* present, missing, or a bare file name), process creates the missing
\* parents and returns with the encoded audio in a file at save_path.
C3_SavedFileExists ==
  (/\ last.op = "process"
   /\ last.pre.pipeline
   /\ last.path \in WritablePaths
   /\ Count(last.trace, "save_audio") > 0)
    => /\ last.returned
       /\ dirname(last.path) \in dirs \cup {<<>>}
       /\ last.path \in DOMAIN files
       /\ files[last.path] = last.value

\* C4: process without a save_path makes no file-system change and never
\* calls save_audio; the buffer it returns is not empty.
C4_NoPathNoWrite ==
  [][ (last'.op = "process" /\ last'.path = <<>>)
      => /\ dirs' = dirs
         /\ files' = files
         /\ Count(last'.trace, "save_audio") = 0
         /\ Count(last'.trace, "makedirs") = 0
         /\ Count(last'.trace, "torchaudio.save") = 0
         /\ (last'.returned => Len(last'.value) > 0) ]_vars

\* a loaded pipeline returned audio for a call without save_path
C4_Witness ==
  /\ last.op = "process"
  /\ last.path = <<>>
  /\ last.pre.pipeline
  /\ last.returned

\* C5: what process returns is the buffer of the one synthesize call it
\* made, with or without a save_path.
C5_ReturnsSynthesized ==
  (last.op = "process" /\ last.returned)
    => /\ last.value = last.audio
       /\ last.audio = torchaudio_save(last.wav, ConfiguredRate(pipeline))
       /\ Count(last.trace, "synthesize") = 1
       /\ Count(last.trace, "tts.tts") = 1

\* process returned after it saved the buffer
C5_Witness ==
  /\ last.op = "process"
  /\ last.returned
  /\ last.path # <<>>
  /\ last.path \in DOMAIN files

\* C6: process on a pipeline whose load_components never completed
\* successfully raises the same RuntimeError as synthesize before
\* load_model, with no synthesis and no file write.
C6_ProcessBeforeLoad ==
  (last.op = "process" /\ ~last.pre.ever)
    => /\ last.err = "RuntimeError"
       /\ ~last.returned
       /\ Count(last.trace, "tts.tts") = 0
       /\ Count(last.trace, "save_audio") = 0

C8_ProcessKeepsLoaded ==
  [][ /\ last'.op = "process"
        => (pipeline' = pipeline /\ hist'.pipeline = hist.pipeline)
      /\ (hist.pipeline /\ last'.op # "load_components")
        => /\ hist'.pipeline
           /\ hasattr(pipeline', "tts_model")
           /\ pipeline'["tts_model"] = pipeline["tts_model"] ]_vars

\* a loaded pipeline processed successfully after a process call failed
C8_Witness ==
  /\ last.op = "process"
  /\ last.pre.pipeline
  /\ last.pre.failed
  /\ last.returned

\* C9: when the write fails inside process, the error of the write reaches
\* the caller, nothing is returned, and synthesize, the library call,
\* save_audio and the write were each made exactly once.
C9_WriteFailureNoRetry ==
  (/\ last.op = "process"
   /\ Count(last.trace, "torchaudio.save") > 0
   /\ last.path \notin WritablePaths)
    => /\ last.err = "PermissionError"
       /\ ~last.returned
       /\ last.value = <<>>
       /\ Count(last.trace, "synthesize") = 1
       /\ Count(last.trace, "tts.tts") = 1
       /\ Count(last.trace, "save_audio") = 1
       /\ Count(last.trace, "torchaudio.save") = 1
       /\ last.path \notin DOMAIN files

\* process failed at the write into a read-only directory
C9_Witness ==
  /\ last.op = "process"
  /\ last.err = "PermissionError"
  /\ Count(last.trace, "torchaudio.save") = 1

\* C10: a file save_audio wrote declares the configured sample rate
\* (config["sample_rate"], or 22050 without the key) whatever rate the
\* input declared, and synthesize encodes at that same rate.
C10_SavedAtConfiguredRate ==
  /\ (last.op \in {"save_audio", "process"}
      /\ Count(last.trace, "torchaudio.save") > 0
      /\ last.err = "ok")
       => /\ last.path \in DOMAIN files
          /\ torchaudio_load(files[last.path]).ok
          /\ torchaudio_load(files[last.path]).rate = ConfiguredRate(Target)
  /\ (last.op \in {"synthesize", "process"}
      /\ Count(last.trace, "_tensor_to_bytes") > 0)
       => torchaudio_load(last.audio).rate = ConfiguredRate(Target)

\* save_audio wrote a buffer that declared another rate than configured
C10_Witness ==
  /\ last.op = "save_audio"
  /\ last.err = "ok"
  /\ torchaudio_load(last.audio_in).ok
  /\ torchaudio_load(last.audio_in).rate # ConfiguredRate(xtts)
  /\ last.path \in DOMAIN files
====
